---- MODULE Spec2Model ----
(***************************************************************************)
(* FetchHttpClient (lib/http/fetch-http-client.impl.ts): the rate-limit    *)
(* gate of makeRequest, the RequestQueue behind it, the waitFor poll       *)
(* timer, the transport call and the error handling of makeRequest.        *)
(*                                                                         *)
(* JavaScript runs one task at a time.  A makeRequest call runs            *)
(* synchronously up to its first await; the action that starts it models   *)
(* all of that synchronous part.  A waitFor timer callback that resolves   *)
(* the promise leaves the continuation of the awaiting call in the         *)
(* microtask queue, which is run before any other task: Poll and Resume    *)
(* are the two halves, and no task is taken between them.                  *)
(* Date.now() is read as a non-decreasing clock; one synchronous block     *)
(* reads one clock value.                                                  *)
(***************************************************************************)
EXTENDS Integers, Sequences, FiniteSets, TLC

\* ------------------------------------------------------------ bounds
NumCalls == 3        \* makeRequest calls that may be pending at once
RateLimit == 20      \* the rateLimitMs given to a rate-limited client
TickMs == 10         \* the clock advances in steps of TickMs
MaxTime == 60        \* the last clock value Spec looks at
MaxCallId == 3       \* tickets one queue issues
MaxQueueLen == 4     \* tickets a RequestQueue used on its own holds
MaxUriLen == 6       \* characters of a uri given to _getTreatedUri
MaxPathLen == 3      \* characters of a path given to the constructor
NumVerbCalls == 2    \* calls pending at a time in VerbSpec

\* ------------------------------------------------------------ constants
checkTimeMs == 10    \* waitFor(predicate, checkTimeMs = 10)

Calls == 1..NumCalls

\* two FetchHttpClient instances
Clients == {"A", "B"}
NoClient == "none"

\* JavaScript's undefined, as a value and as an id (peek() of an empty queue)
Undefined == "undefined"
UndefinedId == -1

\* requestData.allowThrow: true, false or omitted
AllowThrowValues == {"true", "false", Undefined}

\* what the transport and the parser hand back, and what is thrown
TheResponse == "response"
TheBody == "body"
TransportError == "TransportError"
ParseError == "ParseError"
HeadersError == "HeadersError"
ComposeError == "ComposeError"

VARIABLES
  now,               \* Date.now()
  rateLimitMs,       \* client -> _rateLimitMs
  timeOfLastRequest, \* client -> #timeOfLastRequest
  requestQueue,      \* client -> #requestQueue: [nextCallId, queuedCalls]
  pc,                \* call -> where the pending call is ("idle": no such call)
  clientOf,          \* call at the gate -> the client it was made on
  requestId,         \* call at the gate -> its ticket (const requestId)
  pollIn,            \* call -> time left until its waitFor interval is due
  lastPassAt,        \* client -> clock reading when a call last passed the gate
  ran,               \* the synchronous block the last step ran, and what it did
  argsOf,            \* call at the gate -> what its makeRequest was called with
  argsRan,           \* what the makeRequest that block ran in was called with
  queue,             \* a RequestQueue used on its own
  issued,            \* the ids its enqueue() has returned
  qran,              \* the method last called on it, and what it returned
  options,           \* the options a client was constructed with: protocol, host, path
  uri,               \* a uri given to its _getTreatedUri
  treated,           \* what _getTreatedUri returned
  defaultRequestOptions, \* the defaultRequestOptions of a client: headers
  requestData,       \* the requestData of a call: options.headers, body
  sent,              \* what that call handed to fetch: url, method, headers, body
  fetched,           \* the response fetch resolved that call with: headers, body
  returned,          \* what that call returned: response, body
  made               \* what new FetchHttpClient(options) gave, called on its own

clientVars == <<now, rateLimitMs, timeOfLastRequest, requestQueue, pc, clientOf,
                requestId, pollIn, lastPassAt, ran, argsOf, argsRan>>

queueVars == <<queue, issued, qran>>

uriVars == <<options, uri, treated>>

shapeVars == <<defaultRequestOptions, requestData, sent>>

parseVars == <<fetched, returned>>

\* what makeRequest leaves alone
pureVars == <<queueVars, uriVars, shapeVars, parseVars, made>>

vars == <<clientVars, pureVars>>

Max(a, b) == IF a >= b THEN a ELSE b

Range(s) == {s[i] : i \in 1..Len(s)}

\* the events named ev in a trace, and the positions they are at
Positions(trace, ev) == {i \in 1..Len(trace) : trace[i][1] = ev}

Has(trace, ev) == Positions(trace, ev) # {}

\* ------------------------------------------------------------ RequestQueue
NewRequestQueue == [nextCallId |-> 0, queuedCalls |-> <<>>]

\* enqueue(): the id returned and the queue left behind
enqueueId(q) == q.nextCallId

\* mutant of enqueue(): #nextCallId is not advanced
enqueueSameId(q) == [q EXCEPT !.queuedCalls = Append(q.queuedCalls, q.nextCallId)]

\* mutant of enqueue(): unshift for push
enqueueAtFront(q) ==
  [nextCallId |-> q.nextCallId + 1,
   queuedCalls |-> <<q.nextCallId>> \o q.queuedCalls]

enqueue(q) ==
  [nextCallId |-> q.nextCallId + 1,
   queuedCalls |-> Append(q.queuedCalls, q.nextCallId)]

peek(q) == IF q.queuedCalls = <<>> THEN UndefinedId ELSE q.queuedCalls[1]

\* mutant of dequeue(): slice(0, -1), the last ticket goes
dequeueLast(q) ==
  [q EXCEPT !.queuedCalls =
     IF q.queuedCalls = <<>> THEN <<>> ELSE SubSeq(q.queuedCalls, 1, Len(q.queuedCalls) - 1)]

\* dequeue(): slice(1)
dequeue(q) ==
  [q EXCEPT !.queuedCalls = IF q.queuedCalls = <<>> THEN <<>> ELSE Tail(q.queuedCalls)]

\* Array.prototype.indexOf: the index, from 0, of the first element equal to
\* id, -1 when there is none
indexOf(s, id) ==
  IF \E i \in 1..Len(s) : s[i] = id
    THEN (CHOOSE i \in 1..Len(s) : s[i] = id /\ \A j \in 1..(i - 1) : s[j] # id) - 1
    ELSE -1

\* Array.prototype.slice(start, end): indexes from 0, a negative index counts
\* from the end, indexes are clamped to the array
sliceIndex(s, k) == IF k < 0 THEN Max(Len(s) + k, 0) ELSE IF k > Len(s) THEN Len(s) ELSE k

slice(s, start, end) ==
  [i \in 1..Max(sliceIndex(s, end) - sliceIndex(s, start), 0) |-> s[sliceIndex(s, start) + i]]

\* dequeue(): the element returned
dequeueId(q) == IF q.queuedCalls = <<>> THEN UndefinedId ELSE q.queuedCalls[1]

\* mutant of remove(): the tickets behind the removed one are dropped too
removeTruncating(q, id) ==
  [q EXCEPT !.queuedCalls = slice(q.queuedCalls, 0, indexOf(q.queuedCalls, id))]

\* remove(id)
remove(q, id) ==
  [q EXCEPT !.queuedCalls =
     slice(q.queuedCalls, 0, indexOf(q.queuedCalls, id))
       \o slice(q.queuedCalls, indexOf(q.queuedCalls, id) + 1, Len(q.queuedCalls))]

\* a method of the queue was called with arg on the queue `before`, with
\* `ids` issued until then, and returned ret
NoCall == [op |-> "none", arg |-> UndefinedId, ret |-> UndefinedId,
           before |-> NewRequestQueue, ids |-> {}]

Called(op, arg, ret) == [op |-> op, arg |-> arg, ret |-> ret, before |-> queue, ids |-> issued]

\* ------------------------------------------------------------ the gate
isRateLimited(cl) == rateLimitMs[cl] > 0

\* mutants of #shouldQueueRequest: <= for <, with and without the
\* #isRateLimited test
shouldQueueRequestLe(cl) ==
  isRateLimited(cl) /\ now <= timeOfLastRequest[cl] + rateLimitMs[cl]

shouldQueueRequestUnguarded(cl) ==
  now <= timeOfLastRequest[cl] + rateLimitMs[cl]

\* mutant of #shouldQueueRequest: the elapsed time is compared the wrong way
shouldQueueRequestFlipped(cl) ==
  isRateLimited(cl) /\ now > timeOfLastRequest[cl] + rateLimitMs[cl]

\* mutant of #shouldQueueRequest: #timeOfLastRequest is a static field, one
\* for all instances
shouldQueueRequestStatic(cl) ==
  isRateLimited(cl) /\ \E d \in Clients : now < timeOfLastRequest[d] + rateLimitMs[cl]

shouldQueueRequest(cl) ==
  isRateLimited(cl) /\ now < timeOfLastRequest[cl] + rateLimitMs[cl]

\* mutant of the waitFor predicate: the head of the queue is not looked at
waitPredicateNoPeek(c) == ~shouldQueueRequest(clientOf[c])

\* the predicate makeRequest hands to waitFor
waitPredicate(c) ==
  /\ ~shouldQueueRequest(clientOf[c])
  /\ peek(requestQueue[clientOf[c]]) = requestId[c]

\* ------------------------------------------------------------ _getTreatedUri
\* A string is the sequence of its characters.  "a" stands for a letter, "1"
\* for a digit or a dot (the characters of a host that are no letters), "\n"
\* for white space (a line feed: trim() strips it, . does not match it, and
\* ":" is a character that only . matches); a protocol, host or path of the configuration is one
\* token, so that what comes from the configuration can be told from what
\* comes from the uri.
LineFeed == "\n"

UriChars == {"a", "1", ":", "/", LineFeed}

Http == "http"
Https == "https"
TheHost == "api.host"
ThePath == "/base"

Sep == <<":", "/", "/">>

\* a capture group that took no part in the match, an option that was not given
UndefinedGroup == <<Undefined>>

Untreated == <<"untreated">>

IsLetter(ch) == ch = "a"
IsHostChar(ch) == ch \in {"a", "1"}
IsSpace(ch) == ch = LineFeed

\* what . matches: all but a line terminator
IsAny(ch) == ch # LineFeed

\* a ?? b, and !a for a string or undefined
nullish(a, b) == IF a = UndefinedGroup THEN b ELSE a

\* null, what Headers.get returns for a header that is not there
Null == <<"null">>

\* the number 0 and the boolean false
NumberZero == <<"number 0">>
BooleanFalse == <<"boolean false">>

\* !a
Falsy(a) == a \in {UndefinedGroup, Null, <<>>, NumberZero, BooleanFalse}

\* String.prototype.trim
trim(s) ==
  IF \A i \in 1..Len(s) : IsSpace(s[i])
    THEN <<>>
    ELSE SubSeq(s, CHOOSE i \in 1..Len(s) : ~IsSpace(s[i]) /\ \A j \in 1..(i - 1) : IsSpace(s[j]),
                   CHOOSE i \in 1..Len(s) : ~IsSpace(s[i]) /\ \A j \in (i + 1)..Len(s) : IsSpace(s[j]))

\* the characters [a-z]+ and [a-z\d.]+ take, greedily, from position k on
letterRun(s, k) ==
  CHOOSE n \in 0..(Len(s) - k + 1) :
    /\ \A i \in 0..(n - 1) : IsLetter(s[k + i])
    /\ k + n > Len(s) \/ ~IsLetter(s[k + n])

hostRun(s, k) ==
  CHOOSE n \in 0..(Len(s) - k + 1) :
    /\ \A i \in 0..(n - 1) : IsHostChar(s[k + i])
    /\ k + n > Len(s) \/ ~IsHostChar(s[k + n])

\* URI_REGEX behind the protocol group, from position k on: the host group
\* takes the longest run of host characters (giving some back never helps:
\* what follows would be a host character), then the path group must take
\* all that is left, from a "/" on
matchRest(s, k, protocol) ==
  [matched |-> \/ k + hostRun(s, k) > Len(s)
               \/ /\ s[k + hostRun(s, k)] = "/"
                  /\ \A i \in (k + hostRun(s, k) + 1)..Len(s) : IsAny(s[i]),
   protocol |-> protocol,
   host |-> IF hostRun(s, k) = 0 THEN UndefinedGroup
                                 ELSE SubSeq(s, k, k + hostRun(s, k) - 1),
   path |-> IF k + hostRun(s, k) > Len(s) THEN UndefinedGroup
                                          ELSE SubSeq(s, k + hostRun(s, k), Len(s))]

\* URI_REGEX.exec: with the protocol group when letters and "://" lead and the
\* rest matches behind them, else without it
hasProtocol(s) ==
  /\ letterRun(s, 1) >= 1
  /\ Len(s) >= letterRun(s, 1) + 3
  /\ SubSeq(s, letterRun(s, 1) + 1, letterRun(s, 1) + 3) = Sep

exec(s) ==
  IF hasProtocol(s) /\ matchRest(s, letterRun(s, 1) + 4, <<>>).matched
    THEN matchRest(s, letterRun(s, 1) + 4, SubSeq(s, 1, letterRun(s, 1)))
    ELSE matchRest(s, 1, UndefinedGroup)

\* the constructor, lines 144-146
clientProtocol(o) == nullish(o.protocol, <<Http>>)
clientHost(o) == nullish(o.host, <<>>)
clientPath(o) == nullish(o.path, <<>>)

isRelative(m) == Falsy(m.protocol) /\ Falsy(m.host)

\* mutant of lines 164-166: the prefix is added whenever there is a protocol
relativeUriAlwaysPrefixed(o, m) ==
  (IF ~Falsy(clientProtocol(o))
     THEN nullish(clientProtocol(o), <<Http>>) \o Sep \o clientHost(o)
     ELSE <<>>)
    \o nullish(clientPath(o), <<>>) \o nullish(m.path, <<>>)

\* lines 164-168
relativeUri(o, m) ==
  (IF ~Falsy(clientHost(o))
     THEN nullish(clientProtocol(o), <<Http>>) \o Sep \o clientHost(o)
     ELSE <<>>)
    \o nullish(clientPath(o), <<>>) \o nullish(m.path, <<>>)

\* mutant of lines 170-172: the path of the client comes behind the path of
\* the uri
absoluteUriPathLast(o, m) ==
  nullish(nullish(m.protocol, clientProtocol(o)), <<Http>>) \o Sep
    \o nullish(nullish(m.host, clientHost(o)), <<>>)
    \o nullish(m.path, <<>>) \o nullish(clientPath(o), <<>>)

\* mutant of lines 170-172: a host of the client goes before the host of the
\* uri
absoluteUriClientHostFirst(o, m) ==
  nullish(nullish(m.protocol, clientProtocol(o)), <<Http>>) \o Sep
    \o (IF ~Falsy(clientHost(o)) THEN clientHost(o) ELSE nullish(m.host, <<>>))
    \o nullish(clientPath(o), <<>>) \o nullish(m.path, <<>>)

\* lines 170-172
absoluteUri(o, m) ==
  nullish(nullish(m.protocol, clientProtocol(o)), <<Http>>) \o Sep
    \o nullish(nullish(m.host, clientHost(o)), <<>>)
    \o nullish(clientPath(o), <<>>) \o nullish(m.path, <<>>)

\* mutant of lines 156-174: a uri that does not match is taken as relative
getTreatedUriUnmatchedRelative(o, u) ==
  IF ~exec(trim(u)).matched
    THEN relativeUri(o, [path |-> UndefinedGroup])
    ELSE IF isRelative(exec(trim(u)))
           THEN relativeUri(o, exec(trim(u)))
           ELSE absoluteUri(o, exec(trim(u)))

getTreatedUri(o, u) ==
  IF ~exec(trim(u)).matched
    THEN <<>>
    ELSE IF isRelative(exec(trim(u)))
           THEN relativeUri(o, exec(trim(u)))
           ELSE absoluteUri(o, exec(trim(u)))

\* ------------------------------------------------------------ the request
\* A header value, a body and a method are strings, sequences of tokens like
\* a uri; a set of headers is a set of <<name, value>>, one for a name.
\* HeadersInit: a plain object, an array of pairs, a Headers (its names are
\* in lower case), or undefined.
NoHeaders == [kind |-> Undefined, entries |-> {}]

Json == "application/json"
AnyType == "*/*"
Fallback == ", */*;q=0.9"

\* String.prototype.toLowerCase, for the names and values used
toLowerCase(t) ==
  CASE t = "Content-Type" -> "content-type"
    [] t = "Accept" -> "accept"
    [] t = "X-Id" -> "x-id"
    [] t = "Application/JSON" -> Json
    [] OTHER -> t

lowered(v) == [i \in 1..Len(v) |-> toLowerCase(v[i])]

\* {...a, ...b}
spread(a, b) == {e \in a : \A f \in b : f[1] # e[1]} \cup b

\* Headers.prototype.get
get(h, name) == IF \E e \in h : e[1] = name THEN (CHOOSE e \in h : e[1] = name)[2] ELSE Null

\* mutant of #getNormalizedHeaders: the names are left as they are
getNormalizedHeadersAsGiven(h) == IF h.kind = Undefined THEN {} ELSE h.entries

\* #getNormalizedHeaders, lines 302-325
getNormalizedHeaders(h) ==
  IF h.kind = Undefined
    THEN {}
    ELSE IF h.kind = "Headers"
           THEN h.entries
           ELSE {<<toLowerCase(e[1]), e[2]>> : e \in h.entries}

\* lines 196-199: new Headers({...defaults, ...per call})
mergedHeaders(d, data) ==
  spread(getNormalizedHeaders(d.headers), getNormalizedHeaders(data.options.headers))

\* mutant of line 203: every body is JSON
isJsonRequestWheneverBody(contentTypeHeader, body) == ~Falsy(body)

\* mutant of line 203: `body !== undefined` for `!!body`
isJsonRequestWhenDefined(contentTypeHeader, body) ==
  (Falsy(contentTypeHeader) \/ lowered(contentTypeHeader) = <<Json>>)
    /\ body # UndefinedGroup

\* line 203
isJsonRequest(contentTypeHeader, body) ==
  (Falsy(contentTypeHeader) \/ lowered(contentTypeHeader) = <<Json>>) /\ ~Falsy(body)

\* mutant of lines 205-208: no content type is assumed
contentTypeToUseAsGiven(contentTypeHeader, body) == contentTypeHeader

\* lines 205-208
contentTypeToUse(contentTypeHeader, body) ==
  IF Falsy(contentTypeHeader) /\ isJsonRequest(contentTypeHeader, body)
    THEN <<Json>>
    ELSE contentTypeHeader

\* mutant of lines 216-225: accept: '*/*' is spread behind the headers
requestHeadersAcceptLast(headers, contentType) ==
  spread(spread(headers, {<<"accept", <<AnyType>> >>}),
         IF ~Falsy(contentType)
           THEN {<<"content-type", contentType>>, <<"accept", contentType \o <<Fallback>> >>}
           ELSE {})

\* lines 216-225
requestHeaders(headers, contentType) ==
  spread(spread({<<"accept", <<AnyType>> >>}, headers),
         IF ~Falsy(contentType)
           THEN {<<"content-type", contentType>>, <<"accept", contentType \o <<Fallback>> >>}
           ELSE {})

\* JSON.stringify
stringify(body) == <<"JSON.stringify">> \o body

\* line 226
requestBody(contentTypeHeader, body) ==
  IF isJsonRequest(contentTypeHeader, body) THEN stringify(body) ELSE body

Unsent == [url |-> Untreated, method |-> Undefined, headers |-> {}, body |-> UndefinedGroup]

\* lines 194-234: what makeRequest(method, u, data) hands to fetch, on a client
\* made with o and defaults d
fetchArguments(o, d, method, u, data) ==
  [url |-> getTreatedUri(o, u),
   method |-> method,
   headers |-> requestHeaders(mergedHeaders(d, data),
                              contentTypeToUse(get(mergedHeaders(d, data), "content-type"),
                                               data.body)),
   body |-> requestBody(get(mergedHeaders(d, data), "content-type"), data.body)]

\* ------------------------------------------------------------ the body returned
\* s.includes(t), on a string of tokens
includes(s, t) == \E i \in 1..Len(s) : s[i] = t

Unfetched == [headers |-> {}, body |-> UndefinedGroup]

NotReturned == [response |-> Unfetched, body |-> [by |-> Undefined, of |-> UndefinedGroup]]

\* fetch has not resolved, nothing is returned
NoResponse ==
  /\ fetched = Unfetched
  /\ returned = NotReturned

\* line 239 with an equality for the includes
defaultBodyParserExact(r) ==
  IF get(r.headers, "content-type") = <<Json>> THEN "json" ELSE "text"

\* lines 238-245: response.json or response.text
defaultBodyParser(r) ==
  IF get(r.headers, "content-type") # Null /\ includes(get(r.headers, "content-type"), Json)
    THEN "json"
    ELSE "text"

\* lines 249-251: the parser that is called, and what it is called on
parsedBody(responseBodyParser, r) ==
  IF ~Falsy(responseBodyParser)
    THEN [by |-> "responseBodyParser", of |-> r.body]
    ELSE [by |-> defaultBodyParser(r), of |-> r.body]

\* ------------------------------------------------------------ the constructor
NotMade == [thrown |-> FALSE, protocol |-> UndefinedGroup, host |-> UndefinedGroup,
            path |-> UndefinedGroup]

Thrown == [thrown |-> TRUE, protocol |-> UndefinedGroup, host |-> UndefinedGroup,
           path |-> UndefinedGroup]

\* path.startsWith('/'): ThePath is a string that starts with a slash
startsWithSlash(path) == path # <<>> /\ path[1] \in {"/", ThePath}

\* line 140 without the `path &&`
pathRejectedWhenEmpty(path) == ~startsWithSlash(path)

\* line 140
pathRejected(path) == ~Falsy(path) /\ ~startsWithSlash(path)

\* lines 137-149: the client made, or the throw
constructor(o) ==
  IF pathRejected(o.path)
    THEN Thrown
    ELSE [thrown |-> FALSE, protocol |-> clientProtocol(o), host |-> clientHost(o),
          path |-> clientPath(o)]

\* ------------------------------------------------------------ settling
Truthy(v) == v = "true"

Pending == [state |-> "pending", response |-> Undefined, body |-> Undefined,
            error |-> Undefined]

\* mutant of lines 247-252: the result is returned without the parsed body
ResolvedWithoutBody(response, body) ==
  [state |-> "resolved", response |-> response, body |-> Undefined, error |-> Undefined]

Resolved(response, body) ==
  [state |-> "resolved", response |-> response, body |-> body, error |-> Undefined]

Rejected(error) ==
  [state |-> "rejected", response |-> Undefined, body |-> Undefined, error |-> error]

\* mutant of the catch block: onError is triggered only when the error is
\* not thrown back
catchTraceQuietThrow(allow, error) ==
  IF Truthy(allow) THEN <<>> ELSE << <<"onError", error>> >>

\* mutant of the catch block: the error is thrown back whatever allowThrow is
catchOutcomeAlwaysThrow(allow, error) == Rejected(error)

\* the catch block of makeRequest: the event it triggers, and how the promise
\* of makeRequest settles
catchTrace(allow, error) == << <<"onError", error>> >>

catchOutcome(allow, error) ==
  IF Truthy(allow) THEN Rejected(error) ELSE Resolved(Undefined, Undefined)

\* the promise settles after everything else the block did
Settled(out) == << <<"settle", out.state>> >>

\* requestData.allowThrow is an input of the call that nothing but the end of
\* the call depends on: the model draws it in the block that ends the call
\* with an error, and the other blocks leave it unread
Unread == "unread"

\* what a step that ran no code of a call leaves in `ran`
NoRun == [client |-> NoClient, ticket |-> UndefinedId, lastPass |-> {},
          allowThrow |-> Unread, trace |-> <<>>, outcome |-> Pending]

\* a block of a call ran.  client, ticket: the client and the ticket of the
\* call while it is at the gate; lastPass: lastPassAt of that client before
\* the block; trace: what the block did, in order; outcome: the promise
Ran(cl, ticket, allow, trace, out) ==
  [client |-> cl, ticket |-> ticket,
   lastPass |-> IF cl = NoClient THEN {} ELSE lastPassAt[cl],
   allowThrow |-> allow, trace |-> trace, outcome |-> out]

\* call c leaves the gate: nothing of it is kept there
Release(c) ==
  /\ clientOf' = [clientOf EXCEPT ![c] = NoClient]
  /\ requestId' = [requestId EXCEPT ![c] = UndefinedId]

\* ------------------------------------------------------------ makeRequest
\* the arguments of makeRequest: method, and the uri with the requestData;
\* verb is the method of the client the caller called
NoArgs == [verb |-> Undefined, method |-> Undefined, data |-> Undefined]

SomeArgs == [verb |-> "makeRequest", method |-> "method", data |-> "data"]

\* a block that is not one of makeRequest before its fetch
OutOfMakeRequest ==
  /\ argsRan' = NoArgs
  /\ UNCHANGED argsOf

\* no continuation is waiting in the microtask queue
NoMicrotask == \A c \in Calls : pc[c] # "granted"

\* mutant of line 192: the time of the request is not recorded
recordedTimeStale(cl) == timeOfLastRequest[cl]

\* line 192: this.#timeOfLastRequest = Date.now()
recordedTime(cl) == now

\* a block that ends the call with error e raised at `raised`: by the catch
\* block when the error is raised in the try, by the throw itself when not
EndInTry(cl, ticket, pre, raised, e) ==
  \E allow \in AllowThrowValues :
    ran' = Ran(cl, ticket, allow,
               pre \o << <<raised, e>> >> \o catchTrace(allow, e)
                   \o Settled(catchOutcome(allow, e)),
               catchOutcome(allow, e))

EndOutsideTry(cl, ticket, pre, raised, e) ==
  \E allow \in AllowThrowValues :
    ran' = Ran(cl, ticket, allow,
               pre \o << <<raised, e>> >> \o Settled(Rejected(e)), Rejected(e))

\* mutant of lines 229-234: onSendRequest is triggered once fetch is invoked
ProceedSendAfterFetch(c, cl, ticket, pre) ==
  /\ timeOfLastRequest' = [timeOfLastRequest EXCEPT ![cl] = recordedTime(cl)]
  /\ lastPassAt' = [lastPassAt EXCEPT ![cl] = {now}]
  /\ Release(c)
  /\ \/ /\ pc' = [pc EXCEPT ![c] = "idle"]
        /\ EndOutsideTry(cl, ticket, pre \o << <<"pass", Undefined>> >>,
                         "headersRejected", HeadersError)
     \/ /\ pc' = [pc EXCEPT ![c] = "idle"]
        /\ EndInTry(cl, ticket, pre \o << <<"pass", Undefined>> >>,
                    "composeRejected", ComposeError)
     \/ /\ pc' = [pc EXCEPT ![c] = "fetching"]
        /\ ran' = Ran(cl, ticket, Unread,
                      pre \o << <<"pass", Undefined>>, <<"fetch", Undefined>>,
                                <<"onSendRequest", Undefined>> >>,
                      Pending)

\* lines 192-234: call c has passed the gate.  It records the time, merges
\* the headers (lines 196-199, before the try), and in the try composes the
\* request, triggers onSendRequest and invokes fetch.  pre: what the block
\* did before.
Proceed(c, cl, ticket, pre) ==
  /\ timeOfLastRequest' = [timeOfLastRequest EXCEPT ![cl] = recordedTime(cl)]
  /\ lastPassAt' = [lastPassAt EXCEPT ![cl] = {now}]
  /\ Release(c)
  /\ \/ \* new Headers(...) or #getNormalizedHeaders throws
        /\ pc' = [pc EXCEPT ![c] = "idle"]
        /\ EndOutsideTry(cl, ticket, pre \o << <<"pass", Undefined>> >>,
                         "headersRejected", HeadersError)
     \/ \* _getTreatedUri or JSON.stringify(body) throws
        /\ pc' = [pc EXCEPT ![c] = "idle"]
        /\ EndInTry(cl, ticket, pre \o << <<"pass", Undefined>> >>,
                    "composeRejected", ComposeError)
     \/ \* onSendRequest.trigger, then fetch is invoked and awaited
        /\ pc' = [pc EXCEPT ![c] = "fetching"]
        /\ ran' = Ran(cl, ticket, Unread,
                      pre \o << <<"pass", Undefined>>, <<"onSendRequest", Undefined>>,
                                <<"fetch", Undefined>> >>,
                      Pending)

\* makeRequest(method, uri, requestData) is invoked on client cl (lines
\* 184-187, and on when the gate is open); the free call of least number
\* stands for the new call.  args: the method, the uri with the requestData,
\* and the method of the client the caller called.
makeRequest(c, cl, args) ==
  /\ NoMicrotask
  /\ pc[c] = "idle"
  /\ \A d \in Calls : d < c => pc[d] # "idle"
  /\ IF shouldQueueRequest(cl)
       THEN /\ enqueueId(requestQueue[cl]) < MaxCallId
            /\ requestId' = [requestId EXCEPT ![c] = enqueueId(requestQueue[cl])]
            /\ requestQueue' = [requestQueue EXCEPT ![cl] = enqueue(@)]
            /\ pollIn' = [pollIn EXCEPT ![c] = checkTimeMs]
            /\ pc' = [pc EXCEPT ![c] = "waiting"]
            /\ clientOf' = [clientOf EXCEPT ![c] = cl]
            /\ ran' = Ran(cl, enqueueId(requestQueue[cl]), Unread,
                          << <<"invoke", Undefined>>, <<"enqueue", Undefined>> >>, Pending)
            /\ UNCHANGED <<timeOfLastRequest, lastPassAt>>
       ELSE /\ Proceed(c, cl, UndefinedId, << <<"invoke", Undefined>> >>)
            /\ UNCHANGED <<requestQueue, pollIn>>
  /\ argsOf' = [argsOf EXCEPT ![c] = IF shouldQueueRequest(cl) THEN args ELSE NoArgs]
  /\ argsRan' = args
  /\ UNCHANGED <<now, rateLimitMs>>
  /\ UNCHANGED pureVars

\* makeRequest called by the caller, with some method, uri and requestData
Invoke(c, cl) == makeRequest(c, cl, SomeArgs)

\* mutant of line 271: get passes 'POST'
GetAsPost(c, cl, data) ==
  makeRequest(c, cl, [verb |-> "get", method |-> "POST", data |-> data])

\* mutant of line 278: post leaves the requestData out
PostWithoutData(c, cl, data) ==
  makeRequest(c, cl, [verb |-> "post", method |-> "POST", data |-> Undefined])

\* lines 267-300: get, post, put, patch, delete(uri, requestData); data is
\* the uri with the requestData
Get(c, cl, data) ==
  makeRequest(c, cl, [verb |-> "get", method |-> "GET", data |-> data])

Post(c, cl, data) ==
  makeRequest(c, cl, [verb |-> "post", method |-> "POST", data |-> data])

Put(c, cl, data) ==
  makeRequest(c, cl, [verb |-> "put", method |-> "PUT", data |-> data])

Patch(c, cl, data) ==
  makeRequest(c, cl, [verb |-> "patch", method |-> "PATCH", data |-> data])

Delete(c, cl, data) ==
  makeRequest(c, cl, [verb |-> "delete", method |-> "DELETE", data |-> data])

\* waitFor: the interval fires; when the predicate holds it clears the
\* interval and resolves, else it stays armed
Poll(c) ==
  /\ NoMicrotask
  /\ pc[c] = "waiting"
  /\ pollIn[c] = 0
  /\ IF waitPredicate(c)
       THEN /\ pc' = [pc EXCEPT ![c] = "granted"]
            /\ UNCHANGED pollIn
       ELSE /\ pollIn' = [pollIn EXCEPT ![c] = checkTimeMs]
            /\ UNCHANGED pc
  /\ ran' = NoRun
  /\ OutOfMakeRequest
  /\ UNCHANGED <<now, rateLimitMs, timeOfLastRequest, requestQueue, clientOf,
                 requestId, lastPassAt>>
  /\ UNCHANGED pureVars

\* the continuation after `await waitFor(...)`: dequeue (line 189), then the
\* call goes on
Resume(c) ==
  /\ pc[c] = "granted"
  /\ requestQueue' = [requestQueue EXCEPT ![clientOf[c]] = dequeue(@)]
  /\ Proceed(c, clientOf[c], requestId[c], << <<"dequeue", Undefined>> >>)
  /\ argsOf' = [argsOf EXCEPT ![c] = NoArgs]
  /\ argsRan' = argsOf[c]
  /\ UNCHANGED <<now, rateLimitMs, pollIn>>
  /\ UNCHANGED pureVars

\* mutant of lines 234-236: onReceiveResponse is triggered in a finally, so
\* also when the transport rejects
FetchSettleAlwaysReceives(c) ==
  /\ NoMicrotask
  /\ pc[c] = "fetching"
  /\ \/ /\ pc' = [pc EXCEPT ![c] = "idle"]
        /\ EndInTry(NoClient, UndefinedId, << <<"onReceiveResponse", Undefined>> >>,
                    "fetchRejected", TransportError)
     \/ /\ pc' = [pc EXCEPT ![c] = "parsing"]
        /\ ran' = Ran(NoClient, UndefinedId, Unread,
                      << <<"fetchResolved", TheResponse>>,
                         <<"onReceiveResponse", TheResponse>>,
                         <<"parse", TheResponse>> >>, Pending)
  /\ OutOfMakeRequest
  /\ UNCHANGED <<now, rateLimitMs, timeOfLastRequest, requestQueue, clientOf,
                 requestId, pollIn, lastPassAt>>
  /\ UNCHANGED pureVars

\* `await fetch(...)` ends: the transport rejects (catch block) or resolves
\* (onReceiveResponse.trigger, then the body parser is called and awaited)
FetchSettle(c) ==
  /\ NoMicrotask
  /\ pc[c] = "fetching"
  /\ \/ /\ pc' = [pc EXCEPT ![c] = "idle"]
        /\ EndInTry(NoClient, UndefinedId, <<>>, "fetchRejected", TransportError)
     \/ /\ pc' = [pc EXCEPT ![c] = "parsing"]
        /\ ran' = Ran(NoClient, UndefinedId, Unread,
                      << <<"fetchResolved", TheResponse>>,
                         <<"onReceiveResponse", TheResponse>>,
                         <<"parse", TheResponse>> >>, Pending)
  /\ OutOfMakeRequest
  /\ UNCHANGED <<now, rateLimitMs, timeOfLastRequest, requestQueue, clientOf,
                 requestId, pollIn, lastPassAt>>
  /\ UNCHANGED pureVars

\* mutant of lines 247-252: the body is parsed after the try, so an error of
\* the parser is not caught
ParseSettleUncaught(c) ==
  /\ NoMicrotask
  /\ pc[c] = "parsing"
  /\ pc' = [pc EXCEPT ![c] = "idle"]
  /\ \/ ran' = Ran(NoClient, UndefinedId, Unread,
                   << <<"parsed", TheBody>> >> \o Settled(Resolved(TheResponse, TheBody)),
                   Resolved(TheResponse, TheBody))
     \/ EndOutsideTry(NoClient, UndefinedId, <<>>, "parseRejected", ParseError)
  /\ OutOfMakeRequest
  /\ UNCHANGED <<now, rateLimitMs, timeOfLastRequest, requestQueue, clientOf,
                 requestId, pollIn, lastPassAt>>
  /\ UNCHANGED pureVars

\* the awaited body parser ends: it returns the body or throws
ParseSettle(c) ==
  /\ NoMicrotask
  /\ pc[c] = "parsing"
  /\ pc' = [pc EXCEPT ![c] = "idle"]
  /\ \/ ran' = Ran(NoClient, UndefinedId, Unread,
                   << <<"parsed", TheBody>> >> \o Settled(Resolved(TheResponse, TheBody)),
                   Resolved(TheResponse, TheBody))
     \/ EndInTry(NoClient, UndefinedId, <<>>, "parseRejected", ParseError)
  /\ OutOfMakeRequest
  /\ UNCHANGED <<now, rateLimitMs, timeOfLastRequest, requestQueue, clientOf,
                 requestId, pollIn, lastPassAt>>
  /\ UNCHANGED pureVars

\* time passes; a due interval may fire late, never early
Tick ==
  /\ now + TickMs <= MaxTime
  /\ now' = now + TickMs
  /\ pollIn' = [c \in Calls |-> Max(0, pollIn[c] - TickMs)]
  /\ ran' = NoRun
  /\ OutOfMakeRequest
  /\ UNCHANGED <<rateLimitMs, timeOfLastRequest, requestQueue, pc, clientOf,
                 requestId, lastPassAt>>
  /\ UNCHANGED pureVars

\* the constructor (lines 101-102, 137-149): #timeOfLastRequest = 0, an empty
\* queue, rateLimitMs ?? 0.  Client A is made with a rate limit, client B
\* without; the clock reads less than rateLimitMs, or not.
Constructed(limits) ==
  /\ now \in {0, RateLimit}
  /\ rateLimitMs = limits
  /\ timeOfLastRequest = [cl \in Clients |-> 0]
  /\ requestQueue = [cl \in Clients |-> NewRequestQueue]
  /\ pc = [c \in Calls |-> "idle"]
  /\ clientOf = [c \in Calls |-> NoClient]
  /\ requestId = [c \in Calls |-> UndefinedId]
  /\ pollIn = [c \in Calls |-> 0]
  /\ lastPassAt = [cl \in Clients |-> {}]
  /\ ran = NoRun
  /\ argsOf = [c \in Calls |-> NoArgs]
  /\ argsRan = NoArgs
  /\ queue = NewRequestQueue
  /\ issued = {}
  /\ qran = NoCall

\* no call whose request is looked at
NoRequest ==
  /\ defaultRequestOptions = [headers |-> NoHeaders]
  /\ requestData = [options |-> [headers |-> NoHeaders], body |-> UndefinedGroup,
                    responseBodyParser |-> UndefinedGroup]
  /\ sent = Unsent
  /\ NoResponse
  /\ made = NotMade

\* _getTreatedUri has not been called
NoUri ==
  /\ options = [protocol |-> UndefinedGroup, host |-> UndefinedGroup, path |-> UndefinedGroup]
  /\ uri = <<>>
  /\ treated = Untreated

Init ==
  /\ Constructed([cl \in Clients |-> IF cl = "A" THEN RateLimit ELSE 0])
  /\ NoUri
  /\ NoRequest

Next ==
  \/ \E c \in Calls, cl \in Clients : Invoke(c, cl)
  \/ \E c \in Calls : Poll(c)
  \/ \E c \in Calls : Resume(c)
  \/ \E c \in Calls : FetchSettle(c)
  \/ \E c \in Calls : ParseSettle(c)
  \/ Tick

Spec == Init /\ [][Next]_vars

\* ------------------------------------------------------------ the verbs
\* the uris and requestData the verbs are called with
Datas == {"data", "other data"}

\* the calls that may be pending at a time
VerbCalls == 1..NumVerbCalls

\* the client made with a rate limit: its gate is open at times and shut at
\* others
LimitedClients == {"A"}

\* the calls a caller makes through the verbs, up to the fetch of each: the
\* transport does not answer meanwhile

VerbNext ==
  \/ \E c \in VerbCalls, cl \in LimitedClients, data \in Datas : Get(c, cl, data)
  \/ \E c \in VerbCalls, cl \in LimitedClients, data \in Datas : Post(c, cl, data)
  \/ \E c \in VerbCalls, cl \in LimitedClients, data \in Datas : Put(c, cl, data)
  \/ \E c \in VerbCalls, cl \in LimitedClients, data \in Datas : Patch(c, cl, data)
  \/ \E c \in VerbCalls, cl \in LimitedClients, data \in Datas : Delete(c, cl, data)
  \/ \E c \in Calls : Poll(c)
  \/ \E c \in Calls : Resume(c)
  \/ Tick

VerbSpec == Init /\ [][VerbNext]_vars

\* ------------------------------------------------------------ unbounded time
\* Tick, for a clock that never stops: past MaxTime the origin of the clock
\* moves on instead of the reading.  Nothing reads a time but to compare
\* now with a recorded time plus rateLimitMs, and a recorded time that has
\* fallen to 0 is already more than rateLimitMs old (MaxTime > RateLimit +
\* TickMs), so the gate opens and closes as it does under the real clock.
LiveTick ==
  /\ IF now + TickMs <= MaxTime
       THEN /\ now' = now + TickMs
            /\ UNCHANGED <<timeOfLastRequest, lastPassAt>>
       ELSE /\ now' = now
            /\ timeOfLastRequest' =
                 [cl \in Clients |-> Max(0, timeOfLastRequest[cl] - TickMs)]
            /\ lastPassAt' =
                 [cl \in Clients |-> {Max(0, t - TickMs) : t \in lastPassAt[cl]}]
  /\ pollIn' = [c \in Calls |-> Max(0, pollIn[c] - TickMs)]
  /\ ran' = NoRun
  /\ OutOfMakeRequest
  /\ UNCHANGED <<rateLimitMs, requestQueue, pc, clientOf, requestId>>
  /\ UNCHANGED pureVars

LiveNext ==
  \/ \E c \in Calls, cl \in Clients : Invoke(c, cl)
  \/ \E c \in Calls : Poll(c)
  \/ \E c \in Calls : Resume(c)
  \/ \E c \in Calls : FetchSettle(c)
  \/ \E c \in Calls : ParseSettle(c)
  \/ LiveTick

\* Time advances, every armed interval fires, every continuation in the
\* microtask queue runs, and the transport and the parser answer.  Nothing
\* obliges a caller to make a call.
Fairness ==
  /\ WF_vars(LiveTick)
  /\ \A c \in Calls : WF_vars(Poll(c))
  /\ \A c \in Calls : WF_vars(Resume(c))
  /\ \A c \in Calls : WF_vars(FetchSettle(c))
  /\ \A c \in Calls : WF_vars(ParseSettle(c))

LiveSpec == Init /\ [][LiveNext]_vars /\ Fairness

\* ------------------------------------------------------------ calls behind a call
\* the calls are made on the rate-limited client, from an instant at which its
\* gate is open: a call is suspended only behind a call that has passed
BehindInit == Init /\ now = RateLimit

BehindNext ==
  \/ \E c \in Calls, cl \in LimitedClients : Invoke(c, cl)
  \/ \E c \in Calls : Poll(c)
  \/ \E c \in Calls : Resume(c)
  \/ \E c \in Calls : FetchSettle(c)
  \/ \E c \in Calls : ParseSettle(c)
  \/ LiveTick

BehindSpec == BehindInit /\ [][BehindNext]_vars /\ Fairness

\* ------------------------------------------------------------ two rate-limited clients
\* both clients are made with a rate limit
BothLimitedInit == Constructed([cl \in Clients |-> RateLimit]) /\ NoUri /\ NoRequest

BothLimitedSpec == BothLimitedInit /\ [][Next]_vars

\* ------------------------------------------------------------ RequestQueue on its own
\* the methods of a RequestQueue, called in any order with any id
Enqueue ==
  /\ enqueueId(queue) < MaxCallId
  /\ Len(queue.queuedCalls) < MaxQueueLen
  /\ queue' = enqueue(queue)
  /\ issued' = issued \cup {enqueueId(queue)}
  /\ qran' = Called("enqueue", UndefinedId, enqueueId(queue))
  /\ UNCHANGED clientVars
  /\ UNCHANGED <<uriVars, shapeVars, parseVars, made>>

Dequeue ==
  /\ queue' = dequeue(queue)
  /\ qran' = Called("dequeue", UndefinedId, dequeueId(queue))
  /\ UNCHANGED <<clientVars, issued>>
  /\ UNCHANGED <<uriVars, shapeVars, parseVars, made>>

Peek ==
  /\ qran' = Called("peek", UndefinedId, peek(queue))
  /\ UNCHANGED <<clientVars, queue, issued>>
  /\ UNCHANGED <<uriVars, shapeVars, parseVars, made>>

Remove(id) ==
  /\ Len(remove(queue, id).queuedCalls) <= MaxQueueLen
  /\ queue' = remove(queue, id)
  /\ qran' = Called("remove", id, UndefinedId)
  /\ UNCHANGED <<clientVars, issued>>
  /\ UNCHANGED <<uriVars, shapeVars, parseVars, made>>

QueueInit == Init /\ now = 0

QueueNext ==
  \/ Enqueue
  \/ Dequeue
  \/ Peek
  \/ \E id \in 0..MaxCallId : Remove(id)

QueueSpec == QueueInit /\ [][QueueNext]_vars

\* ------------------------------------------------------------ _getTreatedUri on its own
\* the options a client is constructed with, each given or not, and the uris
Options ==
  [protocol : {UndefinedGroup, <<Https>>},
   host : {UndefinedGroup, <<TheHost>>},
   path : {UndefinedGroup, <<ThePath>>}]

Uris == UNION {[1..n -> UriChars] : n \in 0..MaxUriLen}

UriInit ==
  /\ Constructed([cl \in Clients |-> IF cl = "A" THEN RateLimit ELSE 0])
  /\ now = 0
  /\ options \in Options
  /\ uri \in Uris
  /\ treated = Untreated
  /\ NoRequest

GetTreatedUri ==
  /\ treated = Untreated
  /\ sent = Unsent
  /\ treated' = getTreatedUri(options, uri)
  /\ UNCHANGED <<clientVars, queueVars, options, uri, shapeVars, parseVars, made>>

\* makeRequest('GET', uri) on that client: lines 211 and 234 compose the uri
MakeRequestWithUri ==
  /\ sent = Unsent
  /\ treated = Untreated
  /\ sent' = fetchArguments(options, defaultRequestOptions, "GET", uri, requestData)
  /\ UNCHANGED <<clientVars, queueVars, uriVars, defaultRequestOptions, requestData, parseVars, made>>

UriNext == GetTreatedUri \/ MakeRequestWithUri

UriSpec == UriInit /\ [][UriNext]_vars

\* ------------------------------------------------------------ the response on its own
\* the content types a response may come with (none: get returns null), and
\* its raw body: a stream or null
Responses ==
  [headers : {{}} \cup {{<<"content-type", v>>} :
                          v \in {<<Json>>, <<Json, "; charset=utf-8">>, <<"text/html">>,
                                 <<"text/plain">>, <<"Application/JSON">>}},
   body : {<<"ReadableStream">>, Null}]

\* the request that goes before: with a content type of its own or none, with
\* a body or none, with a responseBodyParser or none
ParsedRequests ==
  [options : [headers : {NoHeaders}
                          \cup {[kind |-> "object", entries |-> {<<"Content-Type", v>>}] :
                                  v \in {<<"text/plain">>, <<Json>>}}],
   body : {UndefinedGroup, <<"{prop: 1}">>},
   responseBodyParser : {UndefinedGroup, <<"responseBodyParser">>}]

ParseInit ==
  /\ Constructed([cl \in Clients |-> IF cl = "A" THEN RateLimit ELSE 0])
  /\ now = 0
  /\ NoUri
  /\ defaultRequestOptions = [headers |-> NoHeaders]
  /\ requestData \in ParsedRequests
  /\ sent = Unsent
  /\ fetched \in Responses
  /\ returned = NotReturned
  /\ made = NotMade

\* makeRequest('POST', uri, requestData) when fetch resolves with a response and
\* the parser resolves, lines 194-252
MakeRequestParsed ==
  /\ sent = Unsent
  /\ returned = NotReturned
  /\ sent' = fetchArguments(options, defaultRequestOptions, "POST", uri, requestData)
  /\ returned' = [response |-> fetched,
                  body |-> parsedBody(requestData.responseBodyParser, fetched)]
  /\ UNCHANGED <<clientVars, queueVars, uriVars, defaultRequestOptions, requestData,
                 fetched, made>>

ParseNext == MakeRequestParsed

ParseSpec == ParseInit /\ [][ParseNext]_vars

\* ------------------------------------------------------------ the constructor on its own
\* the paths a client may be constructed with: none, or a string of up to
\* MaxPathLen characters
Paths == {UndefinedGroup} \cup UNION {[1..n -> {"/", "a", "1"}] : n \in 0..MaxPathLen}

ConstructorInit ==
  /\ Constructed([cl \in Clients |-> IF cl = "A" THEN RateLimit ELSE 0])
  /\ now = 0
  /\ options \in [protocol : {UndefinedGroup, <<Https>>},
                   host : {UndefinedGroup, <<TheHost>>},
                   path : Paths]
  /\ uri = <<>>
  /\ treated = Untreated
  /\ NoRequest

\* new FetchHttpClient(options), lines 137-149
Construct ==
  /\ made = NotMade
  /\ made' = constructor(options)
  /\ UNCHANGED <<clientVars, queueVars, uriVars, shapeVars, parseVars>>

ConstructorNext == Construct

ConstructorSpec == ConstructorInit /\ [][ConstructorNext]_vars

\* ------------------------------------------------------------ the request on its own
\* the headers a caller may give: a content type, an accept header and one
\* more header, each there or not, the names in one spelling or another
ContentTypes == {<<"text/plain">>, <<Json>>, <<"Application/JSON">>}

HeaderEntries ==
  {a \cup b \cup c :
     a \in {{}} \cup {{<<n, v>>} : n \in {"Content-Type", "content-type"}, v \in ContentTypes},
     b \in {{}, {<<"Accept", <<"text/html">> >>}},
     c \in {{}} \cup {{<<n, v>>} : n \in {"X-Id", "x-id"}, v \in {<<"1">>, <<"2">>}}}

HeadersInits ==
  {NoHeaders}
    \cup {[kind |-> k, entries |-> h] : k \in {"object", "array"}, h \in HeaderEntries}
    \cup {[kind |-> "Headers", entries |-> {<<toLowerCase(e[1]), e[2]>> : e \in h}] :
            h \in HeaderEntries}

\* no body, null, the empty string, 0, false, an object, a string
Bodies == {UndefinedGroup, Null, <<>>, NumberZero, BooleanFalse,
           <<"{prop: 1}">>, <<"something">>}

RequestInit ==
  /\ Constructed([cl \in Clients |-> IF cl = "A" THEN RateLimit ELSE 0])
  /\ now = 0
  /\ NoUri
  /\ defaultRequestOptions \in [headers : HeadersInits]
  /\ requestData \in [options : [headers : HeadersInits], body : Bodies,
                      responseBodyParser : {UndefinedGroup}]
  /\ sent = Unsent
  /\ NoResponse
  /\ made = NotMade

\* makeRequest('POST', uri, requestData), lines 194-234
MakeRequestWithData ==
  /\ sent = Unsent
  /\ sent' = fetchArguments(options, defaultRequestOptions, "POST", uri, requestData)
  /\ UNCHANGED <<clientVars, queueVars, uriVars, defaultRequestOptions, requestData, parseVars, made>>

RequestNext == MakeRequestWithData

RequestSpec == RequestInit /\ [][RequestNext]_vars

\* ------------------------------------------------------------ the claims
\* what the block of the last step did
RanInvoke == Has(ran.trace, "invoke")
RanPass == Has(ran.trace, "pass")
RanFetch == Has(ran.trace, "fetch")

\* the calls suspended at the gate of client cl
AtGate(cl) == {c \in Calls : pc[c] \in {"waiting", "granted"} /\ clientOf[c] = cl}

\* the errors a block raises, with the place they are raised at
Raises == {"headersRejected", "composeRejected", "fetchRejected", "parseRejected"}

\* C1: on a rate-limited client the transport is invoked for the calls in the
\* order of their invocation: when fetch is invoked for a call, every call
\* still suspended at the gate of that client was invoked after it (it holds
\* a later ticket).  A call that did not take a ticket is the latest call
\* invoked, so nothing may be suspended when it is dispatched.
C1_InvocationOrder ==
  (RanFetch /\ isRateLimited(ran.client)) =>
    \A d \in AtGate(ran.client) :
      ran.ticket # UndefinedId /\ requestId[d] > ran.ticket

\* C2: among the calls that took a ticket, the gate is passed in the order of
\* the tickets: when a call with a ticket passes, every call still suspended
\* at that gate holds a later ticket, whichever transport calls are still
\* under way.
C2_TicketOrder ==
  (RanPass /\ ran.ticket # UndefinedId) =>
    \A d \in AtGate(ran.client) : requestId[d] > ran.ticket

\* the call with the second ticket passes while the first is still with the
\* transport and a third is suspended
C2_Witness ==
  /\ RanFetch
  /\ ran.ticket = 1
  /\ AtGate(ran.client) # {}
  /\ Cardinality({c \in Calls : pc[c] = "fetching"}) >= 2

\* C3: on a rate-limited client a call passes the gate no sooner than
\* rateLimitMs after the call before it did, and the timer grants passage to
\* one suspended call at a time.
C3_Spacing ==
  /\ (RanPass /\ isRateLimited(ran.client)) =>
       \A t \in ran.lastPass : now >= t + rateLimitMs[ran.client]
  /\ Cardinality({c \in Calls : pc[c] = "granted"}) <= 1

\* a suspended call passes after an earlier call, another one still suspended
C3_Witness ==
  /\ RanPass
  /\ isRateLimited(ran.client)
  /\ ran.ticket # UndefinedId
  /\ ran.lastPass # {}
  /\ AtGate(ran.client) # {}

\* C4: on a rate-limited client a call invoked less than rateLimitMs after
\* the last passage does not invoke the transport: it takes a ticket, joins
\* the queue and stays pending.
C4_QueuedWhenTooSoon ==
  (/\ RanInvoke
   /\ isRateLimited(ran.client)
   /\ \E t \in ran.lastPass : now < t + rateLimitMs[ran.client]) =>
    /\ ran.trace = << <<"invoke", Undefined>>, <<"enqueue", Undefined>> >>
    /\ ran.outcome = Pending
    /\ ran.ticket \in Range(requestQueue[ran.client].queuedCalls)
    /\ \E c \in AtGate(ran.client) : pc[c] = "waiting" /\ requestId[c] = ran.ticket

\* three calls back to back: the first was dispatched at this very instant,
\* the second holds a ticket, the third takes one
C4_Witness ==
  /\ RanInvoke
  /\ Has(ran.trace, "enqueue")
  /\ ran.lastPass = {now}
  /\ ran.ticket = 1
  /\ \E c \in Calls : pc[c] = "fetching"

\* C5: every call that takes a ticket is eventually dispatched
C5_EveryTicketIsServed ==
  \A c \in Calls : (pc[c] = "waiting") ~> (pc[c] \notin {"waiting", "granted"})

C7_FirstCallPasses ==
  (/\ RanInvoke
   /\ isRateLimited(ran.client)
   /\ ran.lastPass = {}
   /\ requestQueue[ran.client].nextCallId = IF Has(ran.trace, "enqueue") THEN 1 ELSE 0
   /\ now >= rateLimitMs[ran.client]) =>
    /\ RanPass
    /\ ~Has(ran.trace, "enqueue")
    /\ ran.ticket = UndefinedId
    /\ timeOfLastRequest[ran.client] = now

\* the first call is made when the clock reads exactly rateLimitMs, and
\* reaches the transport
C7_Witness ==
  /\ RanInvoke
  /\ isRateLimited(ran.client)
  /\ ran.lastPass = {}
  /\ requestQueue[ran.client].nextCallId = 0
  /\ now = rateLimitMs[ran.client]
  /\ RanFetch

\* C8: when the transport rejects, onError is triggered once, with the value
\* the transport rejected with, after the rejection and before the promise
\* of makeRequest settles, whatever allowThrow is.
C8_OnErrorOnce ==
  \A i \in Positions(ran.trace, "fetchRejected") :
    /\ Positions(ran.trace, "onError") = {i + 1}
    /\ ran.trace[i + 1][2] = ran.trace[i][2]
    /\ Positions(ran.trace, "settle") = {i + 2}
    /\ ran.outcome.state # "pending"

\* the transport rejects a call made with allowThrow: true
C8_Witness ==
  /\ Has(ran.trace, "fetchRejected")
  /\ ran.allowThrow = "true"
  /\ ran.outcome.state = "rejected"

\* C9: when the transport rejects, the promise of makeRequest rejects with
\* the same value when allowThrow is true, and resolves to {response:
\* undefined, body: undefined} when it is false or omitted.
C9_RejectOrEmpty ==
  \A i \in Positions(ran.trace, "fetchRejected") :
    /\ ran.allowThrow \in AllowThrowValues
    /\ ran.allowThrow = "true" => ran.outcome = Rejected(ran.trace[i][2])
    /\ ran.allowThrow \in {"false", Undefined} =>
         ran.outcome = Resolved(Undefined, Undefined)

\* the transport rejects a call made without allowThrow
C9_Witness ==
  /\ Has(ran.trace, "fetchRejected")
  /\ ran.allowThrow = Undefined
  /\ ran.outcome = Resolved(Undefined, Undefined)

\* C10: whatever step of makeRequest raises an error (header merging, request
\* composition, the transport, body parsing), onError is triggered with it
\* next, and without allowThrow the promise resolves to {response:
\* undefined, body: undefined}.
C10_EveryErrorIsCaught ==
  \A r \in Raises : \A i \in Positions(ran.trace, r) :
    /\ i < Len(ran.trace)
    /\ ran.trace[i + 1] = <<"onError", ran.trace[i][2]>>
    /\ ran.allowThrow \in {"false", Undefined} =>
         ran.outcome = Resolved(Undefined, Undefined)

\* C11: when the body parser fails after the transport has answered, the
\* error is handled as a failure of the transport is: onError is triggered
\* once, with the error, before the promise settles; the promise rejects with
\* the error when allowThrow is true and resolves to {response: undefined,
\* body: undefined} when it is false or omitted.
C11_ParseErrorHandled ==
  \A i \in Positions(ran.trace, "parseRejected") :
    /\ Positions(ran.trace, "onError") = {i + 1}
    /\ ran.trace[i + 1][2] = ran.trace[i][2]
    /\ Positions(ran.trace, "settle") = {i + 2}
    /\ ran.allowThrow \in AllowThrowValues
    /\ ran.allowThrow = "true" =>
         /\ ran.outcome.state = "rejected"
         /\ ran.outcome.error = ran.trace[i][2]
    /\ ran.allowThrow \in {"false", Undefined} =>
         /\ ran.outcome.state = "resolved"
         /\ ran.outcome.response = Undefined
         /\ ran.outcome.body = Undefined

\* the parser fails for a call made with allowThrow: false
C11_Witness ==
  /\ Has(ran.trace, "parseRejected")
  /\ ran.allowThrow = "false"
  /\ ran.outcome.state = "resolved"
  /\ ran.outcome.response = Undefined

\* the errors the try block of makeRequest catches
Caught == {"composeRejected", "fetchRejected", "parseRejected"}

\* C12, as stated: a result with response and body undefined comes only from
\* a failure of the transport, and a call whose transport answered resolves
\* to that response with the parsed body.
C12_UndefinedOnlyOnTransportFailure ==
  /\ (/\ ran.outcome.state = "resolved"
      /\ ran.outcome.response = Undefined
      /\ ran.outcome.body = Undefined) => Has(ran.trace, "fetchRejected")
  /\ (/\ ran.outcome.state = "resolved"
      /\ \E e \in {"parsed", "parseRejected"} : Has(ran.trace, e)) =>
       /\ ran.outcome.response = TheResponse
       /\ ran.outcome.body = TheBody

\* C12, amended: a call resolves to {response: undefined, body: undefined}
\* exactly when an error caught by the try block (request composition,
\* transport or body parsing) is not thrown back; it resolves otherwise only
\* when the parser returned, and then to the response of the transport
\* together with the parsed body.  Response and body are undefined together
\* or not at all.
C12_UndefinedWhenSuppressed ==
  /\ ran.outcome.state = "resolved" =>
       \/ /\ ran.outcome.response = Undefined
          /\ ran.outcome.body = Undefined
          /\ \E r \in Caught : Has(ran.trace, r)
          /\ ~Truthy(ran.allowThrow)
       \/ /\ ran.outcome.response = TheResponse
          /\ ran.outcome.body = TheBody
          /\ Has(ran.trace, "parsed")
          /\ \A r \in Raises : ~Has(ran.trace, r)
  /\ (/\ \E r \in Caught : Has(ran.trace, r)
      /\ ~Truthy(ran.allowThrow)) =>
       /\ ran.outcome.state = "resolved"
       /\ ran.outcome.response = Undefined
       /\ ran.outcome.body = Undefined
  /\ Has(ran.trace, "parsed") =>
       /\ ran.outcome.state = "resolved"
       /\ ran.outcome.response = TheResponse

\* the parser returns the body of a call while another call is with the
\* transport
C12_Witness ==
  /\ Has(ran.trace, "parsed")
  /\ ran.outcome.state = "resolved"
  /\ ran.outcome.body = TheBody
  /\ \E c \in Calls : pc[c] = "fetching"

C14_ReceiveEventAfterFetch ==
  /\ \A i \in Positions(ran.trace, "fetchResolved") :
       /\ Positions(ran.trace, "onReceiveResponse") = {i + 1}
       /\ ran.trace[i + 1][2] = ran.trace[i][2]
       /\ Positions(ran.trace, "parse") = {i + 2}
  /\ Has(ran.trace, "fetchRejected") => ~Has(ran.trace, "onReceiveResponse")
  /\ Has(ran.trace, "onReceiveResponse") => Has(ran.trace, "fetchResolved")

\* the transport answers one call while it has rejected none and another
\* call is still with it
C14_Witness ==
  /\ Has(ran.trace, "onReceiveResponse")
  /\ Has(ran.trace, "parse")
  /\ ran.outcome = Pending
  /\ \E c \in Calls : pc[c] = "fetching"
  /\ \E c \in Calls : pc[c] = "parsing"

\* the front of a sequence of tickets, undefined when there is none
Front(s) == IF Len(s) = 0 THEN UndefinedId ELSE Head(s)

\* C15: enqueue() returns an id greater than every id returned before,
\* whatever was dequeued or removed since, and puts it at the back; peek()
\* returns the front id and leaves the queue as it is; dequeue() returns the
\* id peek() would have returned and removes it, and nothing else, from the
\* front.
C15_QueueIds ==
  /\ qran.op = "enqueue" =>
       /\ \A i \in qran.ids : qran.ret > i
       /\ qran.ret \notin Range(qran.before.queuedCalls)
       /\ queue.queuedCalls = qran.before.queuedCalls \o <<qran.ret>>
  /\ qran.op = "peek" =>
       /\ qran.ret = Front(qran.before.queuedCalls)
       /\ queue = qran.before
  /\ qran.op = "dequeue" =>
       /\ qran.ret = Front(qran.before.queuedCalls)
       /\ qran.before.queuedCalls # <<>> =>
            qran.before.queuedCalls = <<qran.ret>> \o queue.queuedCalls
       /\ qran.before.queuedCalls = <<>> => queue.queuedCalls = <<>>
       /\ queue.nextCallId = qran.before.nextCallId

\* an id is issued after the tickets issued before have left the queue
C15_Witness ==
  /\ qran.op = "enqueue"
  /\ Cardinality(qran.ids) >= 2
  /\ qran.before.queuedCalls = <<>>

\* C16: remove(id) of an id in the queue takes out that ticket (its first
\* entry) and nothing else: the tickets before it and the tickets behind it
\* stay, in the order they were in.
C16_RemoveOne ==
  (qran.op = "remove" /\ qran.arg \in Range(qran.before.queuedCalls)) =>
    \E i \in 1..Len(qran.before.queuedCalls) :
      /\ qran.before.queuedCalls[i] = qran.arg
      /\ \A j \in 1..(i - 1) : qran.before.queuedCalls[j] # qran.arg
      /\ Len(queue.queuedCalls) = Len(qran.before.queuedCalls) - 1
      /\ \A j \in 1..Len(queue.queuedCalls) :
           queue.queuedCalls[j] = qran.before.queuedCalls[IF j < i THEN j ELSE j + 1]
      /\ queue.nextCallId = qran.before.nextCallId
      /\ Cardinality(Range(qran.before.queuedCalls)) = Len(qran.before.queuedCalls) =>
           qran.arg \notin Range(queue.queuedCalls)

\* the middle one of three tickets is removed
C16_Witness ==
  /\ qran.op = "remove"
  /\ qran.before.queuedCalls = <<0, 1, 2>>
  /\ qran.arg = 1
  /\ queue.queuedCalls = <<0, 2>>

\* C17: two clients share no rate-limit state.  A step changes the queue or
\* the time of the last request of a client only when it runs a block of a
\* call made on that client; and a call is made to wait only by its own
\* client: when a call joins the queue, less than rateLimitMs has passed
\* since a call last passed the gate of that same client (or since the clock
\* read 0, when none has), whatever was called on the other client.
C17_Isolation ==
  /\ [](RanInvoke /\ Has(ran.trace, "enqueue") =>
          IF ran.lastPass = {}
            THEN now < rateLimitMs[ran.client]
            ELSE \E t \in ran.lastPass : now < t + rateLimitMs[ran.client])
  /\ [][\A cl \in Clients :
          (\/ requestQueue'[cl] # requestQueue[cl]
           \/ timeOfLastRequest'[cl] # timeOfLastRequest[cl]) => ran'.client = cl]_vars

\* a call passes the gate of one rate-limited client at once while calls wait
\* at the gate of the other, which a call passed at this very instant
C17_Witness ==
  /\ RanInvoke
  /\ RanFetch
  /\ ran.client = "A"
  /\ AtGate("A") = {}
  /\ AtGate("B") # {}
  /\ lastPassAt["B"] = {now}
  /\ isRateLimited("B")

\* the ways to read a uri as white space, a scheme with "://", a host, a path
\* from a "/" on and white space, each of them there or not: the scheme, the
\* host and the path of each way, empty when not there
Spaces(u, from, to) == \A k \in from..to : u[k] = LineFeed

Parts(u) ==
  UNION {UNION {UNION {
    {[scheme |-> IF i = a THEN <<>> ELSE SubSeq(u, a + 1, i - 3),
      host |-> SubSeq(u, i + 1, j),
      path |-> SubSeq(u, j + 1, e)] :
       j \in {j \in i..e :
                /\ \A k \in (i + 1)..j : u[k] \in {"a", "1"}
                /\ j < e => u[j + 1] = "/"
                /\ \A k \in (j + 1)..e : u[k] # LineFeed}} :
       i \in {i \in a..e :
                \/ i = a
                \/ /\ i >= a + 4
                   /\ \A k \in (a + 1)..(i - 3) : u[k] = "a"
                   /\ SubSeq(u, i - 2, i) = <<":", "/", "/">>}} :
       e \in {e \in a..Len(u) :
                /\ Spaces(u, e + 1, Len(u))
                /\ e > a => ~Spaces(u, a + 1, a + 1) /\ ~Spaces(u, e, e)}} :
       a \in {a \in 0..Len(u) : Spaces(u, 1, a)}}

\* C18: for a uri in which a scheme or a host is read, _getTreatedUri returns
\* the scheme of the uri, or else the protocol of the client, then "://",
\* then the host of the uri, or else the host of the client, then the path
\* of the client, then the path of the uri.
C18_AbsoluteUri ==
  treated # Untreated =>
    \A d \in Parts(uri) : (d.scheme # <<>> \/ d.host # <<>>) =>
      treated = (IF d.scheme # <<>> THEN d.scheme ELSE clientProtocol(options))
                  \o <<":", "/", "/">>
                  \o (IF d.host # <<>> THEN d.host ELSE clientHost(options))
                  \o clientPath(options) \o d.path

\* a uri with a scheme, a host and a path, given to a client with a protocol,
\* a host and a path
C18_Witness ==
  /\ treated # Untreated
  /\ options = [protocol |-> <<Https>>, host |-> <<TheHost>>, path |-> <<ThePath>>]
  /\ \E d \in Parts(uri) : d.scheme # <<>> /\ d.host # <<>> /\ d.path # <<>>
  /\ treated = <<"a">> \o <<":", "/", "/">> \o <<"1">> \o <<ThePath>> \o <<"/">>

\* C19: for a uri in which neither a scheme nor a host is read (the empty
\* string is one), _getTreatedUri returns the protocol of the client, "://"
\* and the host of the client when the client has a host, and nothing in
\* their place when it has none, also when it has a protocol; then the path
\* of the client, then the path of the uri.
C19_RelativeUri ==
  treated # Untreated =>
    \A d \in Parts(uri) : (d.scheme = <<>> /\ d.host = <<>>) =>
      treated = (IF clientHost(options) # <<>>
                   THEN clientProtocol(options) \o <<":", "/", "/">> \o clientHost(options)
                   ELSE <<>>)
                  \o clientPath(options) \o d.path

\* a path alone, given to a client with a protocol and a path but no host
C19_Witness ==
  /\ treated # Untreated
  /\ options = [protocol |-> <<Https>>, host |-> UndefinedGroup, path |-> <<ThePath>>]
  /\ \E d \in Parts(uri) : d.scheme = <<>> /\ d.host = <<>> /\ Len(d.path) >= 2
  /\ treated[1] = ThePath
  /\ Len(treated) >= 3

\* what of a treated uri is a protocol, and what a host, of the client
FromClient(tokens) == {k \in 1..Len(treated) : treated[k] \in tokens}

\* C20, as stated: a uri with a scheme or a host takes the path of the client
\* and never its protocol or its host.
C20_AbsoluteTakesOnlyPath ==
  treated # Untreated =>
    \A d \in Parts(uri) : (d.scheme # <<>> \/ d.host # <<>>) =>
      /\ FromClient({Http, Https}) = {}
      /\ FromClient({TheHost}) = {}
      /\ clientPath(options) # <<>> => FromClient({ThePath}) # {}

\* C20, amended: a uri with neither scheme nor host takes the protocol and
\* the host of the client when the client has a host, and the path of the
\* client.  A uri with a scheme or a host takes the path of the client, and
\* of protocol and host what it does not bring itself: the protocol of the
\* client when it has no scheme, the host of the client when it has no host;
\* its own scheme and its own host are never replaced.
C20_Precedence ==
  treated # Untreated =>
    \A d \in Parts(uri) :
      /\ clientPath(options) # <<>> => Cardinality(FromClient({ThePath})) = 1
      /\ d.scheme # <<>> =>
           /\ FromClient({Http, Https}) = {}
           /\ SubSeq(treated, 1, Len(d.scheme)) = d.scheme
      /\ d.host # <<>> =>
           /\ FromClient({TheHost}) = {}
           /\ \E k \in 1..Len(treated) : SubSeq(treated, k, k + Len(d.host) - 1) = d.host
      /\ (d.scheme = <<>> /\ d.host # <<>>) => <<treated[1]>> = clientProtocol(options)
      /\ (d.scheme # <<>> /\ d.host = <<>>) =>
           (clientHost(options) # <<>> <=> FromClient({TheHost}) # {})
      /\ (d.scheme = <<>> /\ d.host = <<>>) =>
           /\ clientHost(options) # <<>> <=> FromClient({TheHost}) # {}
           /\ clientHost(options) # <<>> <=> FromClient({Http, Https}) # {}

\* a host and a path, given to a client with a protocol and a host: the
\* protocol is the client's, the host is the uri's
C20_Witness ==
  /\ treated # Untreated
  /\ options = [protocol |-> <<Https>>, host |-> <<TheHost>>, path |-> UndefinedGroup]
  /\ \E d \in Parts(uri) : d.scheme = <<>> /\ d.host # <<>> /\ d.path # <<>>
  /\ treated[1] = Https
  /\ FromClient({TheHost}) = {}

\* C21: a uri that cannot be read as [scheme://][host][/path] (a host with a
\* port, say) is treated to the empty string, whatever protocol, host and
\* path the client has, and makeRequest hands that empty string to fetch,
\* as it does any other uri: composing raises nothing.
C21_UnmatchedUriIsEmpty ==
  Parts(uri) = {} =>
    /\ treated # Untreated => treated = <<>>
    /\ sent # Unsent =>
         /\ sent.url = <<>>
         /\ sent.method = "GET"
         /\ sent.headers = {<<"accept", <<AnyType>> >>}

\* a host with a port, given to makeRequest on a client with a protocol, a
\* host and a path
C21_Witness ==
  /\ sent # Unsent
  /\ sent.url = <<>>
  /\ uri = <<"a", ":", "1", "/">>
  /\ options = [protocol |-> <<Https>>, host |-> <<TheHost>>, path |-> <<ThePath>>]

\* the headers a caller gave, by their names in lower case: those of the
\* call, those of the client, and what the two make together, a header of
\* the call going before the header of that name of the client
Supplied(h) == {<<toLowerCase(e[1]), e[2]>> : e \in h.entries}

Named(h, name) == {e[2] : e \in {x \in h : x[1] = name}}

Wanted(name) ==
  IF Named(Supplied(requestData.options.headers), name) # {}
    THEN Named(Supplied(requestData.options.headers), name)
    ELSE Named(Supplied(defaultRequestOptions.headers), name)

\* the content type that applies to the request: the one supplied, or else
\* JSON when there is a body
Applies ==
  IF Wanted("content-type") # {}
    THEN Wanted("content-type")
    ELSE IF ~Falsy(requestData.body) THEN {<<Json>>} ELSE {}

\* C22, as stated: without a content type among the headers, a request with a
\* body is sent as JSON (content-type application/json, accept
\* 'application/json, */*;q=0.9', the body JSON-encoded), and a request
\* without a body is sent with no content-type and accept '*/*'.
C22_NoContentType ==
  (sent # Unsent /\ Wanted("content-type") = {}) =>
    /\ ~Falsy(requestData.body) =>
         /\ Named(sent.headers, "content-type") = {<<Json>>}
         /\ Named(sent.headers, "accept") = {<<Json, Fallback>>}
         /\ sent.body = <<"JSON.stringify">> \o requestData.body
    /\ requestData.body = UndefinedGroup =>
         /\ Named(sent.headers, "content-type") = {}
         /\ Named(sent.headers, "accept") = {<<AnyType>>}

\* C22, amended: without a content type among the headers, a request with a
\* body that is not falsy is sent as JSON, whatever accept header was
\* supplied; a request with no body, or a falsy one (the empty string), is
\* sent with no content-type, the body as it is, and the accept header that
\* was supplied, '*/*' when none was.
C22_NoContentTypeAccept ==
  (sent # Unsent /\ Wanted("content-type") = {}) =>
    /\ ~Falsy(requestData.body) =>
         /\ Named(sent.headers, "content-type") = {<<Json>>}
         /\ Named(sent.headers, "accept") = {<<Json, Fallback>>}
         /\ sent.body = <<"JSON.stringify">> \o requestData.body
    /\ Falsy(requestData.body) =>
         /\ Named(sent.headers, "content-type") = {}
         /\ sent.body = requestData.body
         /\ Named(sent.headers, "accept") =
              IF Wanted("accept") # {} THEN Wanted("accept") ELSE {<<AnyType>>}

\* an object is posted with an accept header of the client and no content
\* type
C22_Witness ==
  /\ sent # Unsent
  /\ Wanted("content-type") = {}
  /\ Wanted("accept") # {}
  /\ requestData.body = <<"{prop: 1}">>
  /\ Named(sent.headers, "content-type") = {<<Json>>}

\* C23, as stated: with a content type among the headers, whatever it is, the
\* body goes to the transport as the caller gave it.
C23_BodyUnchanged ==
  (sent # Unsent /\ Wanted("content-type") # {}) => sent.body = requestData.body

\* C23, amended: with a content type among the headers the body goes to the
\* transport as the caller gave it, unless the content type is
\* application/json (in any case of letters) and the body is not falsy: then
\* it is JSON-encoded, as it is without a content type.
C23_BodyUnchangedUnlessJson ==
  (sent # Unsent /\ Wanted("content-type") # {}) =>
    \A t \in Wanted("content-type") :
      IF toLowerCase(t[1]) = Json /\ Len(t) = 1 /\ ~Falsy(requestData.body)
        THEN sent.body = <<"JSON.stringify">> \o requestData.body
        ELSE sent.body = requestData.body

\* a string is posted as text/plain, the content type given by the client
C23_Witness ==
  /\ sent # Unsent
  /\ Wanted("content-type") = {<<"text/plain">>}
  /\ Named(Supplied(requestData.options.headers), "content-type") = {}
  /\ requestData.body = <<"something">>
  /\ sent.body = <<"something">>

\* C24, as stated: the accept header sent is '<content-type>, */*;q=0.9' when
\* a content type applies and '*/*' when none does, whatever headers were
\* supplied.
C24_AcceptAlwaysComputed ==
  sent # Unsent =>
    Named(sent.headers, "accept") =
      IF Applies # {} THEN {t \o <<Fallback>> : t \in Applies} ELSE {<<AnyType>>}

\* C24, amended: the accept header sent is '<content-type>, */*;q=0.9' when a
\* content type applies, whatever accept header was supplied; when none
\* applies it is the accept header supplied, that of the call before that of
\* the client, and '*/*' when none was supplied.
C24_AcceptComputedOrSupplied ==
  sent # Unsent =>
    /\ Cardinality(Named(sent.headers, "accept")) = 1
    /\ Applies # {} =>
         Named(sent.headers, "accept") = {t \o <<Fallback>> : t \in Applies}
    /\ (Applies = {} /\ Wanted("accept") # {}) =>
         Named(sent.headers, "accept") = Wanted("accept")
    /\ (Applies = {} /\ Wanted("accept") = {}) =>
         Named(sent.headers, "accept") = {<<AnyType>>}

\* an accept header is supplied with a content type: the accept header sent
\* is the computed one
C24_Witness ==
  /\ sent # Unsent
  /\ Wanted("accept") = {<<"text/html">>}
  /\ Wanted("content-type") = {<<"text/plain">>}
  /\ Named(sent.headers, "accept") = {<<"text/plain", Fallback>>}

\* the names, in lower case, of the headers supplied
SuppliedNames ==
  {e[1] : e \in Supplied(defaultRequestOptions.headers) \cup Supplied(requestData.options.headers)}

\* C25, as stated: every header of the client and of the call is sent under
\* its name in lower case with its value, the value of the call where both
\* have one.
C25_HeadersMerged ==
  sent # Unsent =>
    \A name \in SuppliedNames : Named(sent.headers, name) = Wanted(name)

\* C25, amended: every header of the client and of the call is sent under
\* its name in lower case with its value, the value of the call where both
\* have one; but an accept header supplied is replaced by '<content-type>,
\* */*;q=0.9' when a content type applies.
C25_HeadersMergedButAccept ==
  sent # Unsent =>
    /\ \A name \in SuppliedNames :
         (name # "accept" \/ Applies = {}) => Named(sent.headers, name) = Wanted(name)
    /\ \A e \in sent.headers : e[1] = toLowerCase(e[1])
    /\ \A name \in {e[1] : e \in sent.headers} :
         name \in SuppliedNames \cup {"accept", "content-type"}

\* the client and the call give the same header, spelled differently, with
\* different values
C25_Witness ==
  /\ sent # Unsent
  /\ Named(defaultRequestOptions.headers.entries, "X-Id") = {<<"1">>}
  /\ Named(requestData.options.headers.entries, "x-id") = {<<"2">>}
  /\ defaultRequestOptions.headers.kind = "object"
  /\ requestData.options.headers.kind = "array"
  /\ Named(sent.headers, "x-id") = {<<"2">>}

C27_PathMustStartWithSlash ==
  made # NotMade =>
    IF options.path \in {UndefinedGroup, <<>>} \/ Head(options.path) = "/"
      THEN /\ ~made.thrown
           /\ made.path = IF options.path = UndefinedGroup THEN <<>> ELSE options.path
           /\ made.host = IF options.host = UndefinedGroup THEN <<>> ELSE options.host
           /\ made.protocol = IF options.protocol = UndefinedGroup THEN <<Http>>
                                                                   ELSE options.protocol
      ELSE made = Thrown

\* a path with a slash that is not at its start
C27_Witness ==
  /\ made = Thrown
  /\ options.path = <<"a", "/">>

\* the tickets in the queue of client cl
Tickets(cl) == Range(requestQueue[cl].queuedCalls)

\* C29: a suspended call that is granted passage finds its own ticket at the
\* head of the queue, and the ticket it dequeues is its own: the tickets of
\* the calls still suspended all stay in the queue.  One suspended call is
\* granted at a time, and no call has passed that gate at the same instant.
C29_OwnTicketAtHead ==
  /\ \A c \in Calls :
       pc[c] = "granted" =>
         /\ peek(requestQueue[clientOf[c]]) = requestId[c]
         /\ \A d \in Calls : pc[d] = "granted" => d = c
  /\ Has(ran.trace, "dequeue") =>
       /\ ran.ticket # UndefinedId
       /\ ran.ticket \notin Tickets(ran.client)
       /\ \A d \in AtGate(ran.client) :
            requestId[d] # ran.ticket /\ requestId[d] \in Tickets(ran.client)
       /\ Len(requestQueue[ran.client].queuedCalls) = Cardinality(AtGate(ran.client))
       /\ now \notin ran.lastPass

\* the call with the first ticket has resumed and dequeued; the calls with
\* the second and the third are still suspended
C29_Witness ==
  /\ Has(ran.trace, "dequeue")
  /\ ran.ticket = 0
  /\ Cardinality(AtGate(ran.client)) = 2
  /\ requestQueue[ran.client].queuedCalls = <<1, 2>>

\* the queue of client cl holds the tickets of the calls suspended at its
\* gate, each once, in increasing order
HoldsTheSuspended(cl) ==
  LET q == requestQueue[cl].queuedCalls
  IN /\ \A i, j \in 1..Len(q) : i < j => q[i] < q[j]
     /\ Range(q) = {requestId[c] : c \in AtGate(cl)}
     /\ Len(q) = Cardinality(AtGate(cl))
     /\ \A c, d \in AtGate(cl) : requestId[c] = requestId[d] => c = d
     /\ \A i \in 1..Len(q) : q[i] < requestQueue[cl].nextCallId
     /\ AtGate(cl) = {} => q = <<>>

\* a ticket leaves the queue of client cl only in the block in which its call
\* resumes and passes the gate, and a ticket that joins it is a new one
RemovedAtDispatch(cl) ==
  LET before == Range(requestQueue[cl].queuedCalls)
      after == Range(requestQueue'[cl].queuedCalls)
  IN /\ \A t \in before \ after :
          /\ ran'.client = cl
          /\ ran'.ticket = t
          /\ Has(ran'.trace, "dequeue")
          /\ Has(ran'.trace, "pass")
          /\ before \ after = {t}
     /\ \A t \in after \ before :
          /\ t = requestQueue[cl].nextCallId
          /\ requestQueue'[cl].nextCallId = t + 1
          /\ \A u \in before : u < t

\* C30: the queue of a client holds exactly the tickets of the calls
\* suspended at its gate, each once and in strictly increasing order; a
\* ticket is removed once, in the block that dispatches its call, and never
\* comes back; when no call is suspended the queue is empty.
C30_QueueIsTheSuspended ==
  /\ [](\A cl \in Clients : HoldsTheSuspended(cl))
  /\ [][\A cl \in Clients : RemovedAtDispatch(cl)]_vars

\* two calls are suspended behind one that is with the transport, and then
\* the first of them is dispatched: one ticket is left
C30_Witness ==
  /\ RanPass
  /\ ran.ticket = 1
  /\ requestQueue[ran.client].queuedCalls = <<2>>
  /\ Cardinality(AtGate(ran.client)) = 1

\* the method each verb passes to makeRequest
Fixed ==
  [v \in {"get", "post", "put", "patch", "delete"} |->
     CASE v = "get" -> "GET"
       [] v = "post" -> "POST"
       [] v = "put" -> "PUT"
       [] v = "patch" -> "PATCH"
       [] v = "delete" -> "DELETE"]

\* args are what a verb gives to makeRequest
OfVerb(args) ==
  /\ args.verb \in DOMAIN Fixed
  /\ args.method = Fixed[args.verb]
  /\ args.data \in Datas

\* the gate of the client was shut when the block that just ran began
GateWasShut ==
  /\ isRateLimited(ran.client)
  /\ IF ran.lastPass = {}
       THEN now < rateLimitMs[ran.client]
       ELSE \E t \in ran.lastPass : now < t + rateLimitMs[ran.client]

\* a call made through a verb holds the verb's method and the caller's data
\* while it is suspended, with a ticket in the queue, and when it invokes
\* fetch; it is suspended when the gate is shut and only then
VerbsHoldTheirMethod ==
  /\ \A c \in Calls :
       IF pc[c] \in {"waiting", "granted"}
         THEN /\ OfVerb(argsOf[c])
              /\ requestId[c] \in Tickets(clientOf[c])
         ELSE argsOf[c] = NoArgs
  /\ (RanInvoke \/ RanPass) => OfVerb(argsRan)
  /\ RanInvoke => (Has(ran.trace, "enqueue") <=> GateWasShut)
  /\ RanInvoke => (RanPass <=> ~GateWasShut)
  /\ \A cl \in Clients : HoldsTheSuspended(cl)

\* a step of a verb is the step of makeRequest with the verb's method and the
\* same data, and a suspended call goes on with what it was called with
VerbsAreMakeRequest ==
  /\ \A c \in Calls, cl \in Clients, data \in Datas :
       /\ Get(c, cl, data) =>
            makeRequest(c, cl, [verb |-> "get", method |-> "GET", data |-> data])
       /\ Post(c, cl, data) =>
            makeRequest(c, cl, [verb |-> "post", method |-> "POST", data |-> data])
       /\ Put(c, cl, data) =>
            makeRequest(c, cl, [verb |-> "put", method |-> "PUT", data |-> data])
       /\ Patch(c, cl, data) =>
            makeRequest(c, cl, [verb |-> "patch", method |-> "PATCH", data |-> data])
       /\ Delete(c, cl, data) =>
            makeRequest(c, cl, [verb |-> "delete", method |-> "DELETE", data |-> data])
  /\ \A c \in Calls :
       (pc[c] = "granted" /\ pc'[c] # "granted") =>
         /\ argsRan' = argsOf[c]
         /\ Has(ran'.trace, "dequeue")

\* C28: get, post, put, patch and delete are makeRequest with the method
\* 'GET', 'POST', 'PUT', 'PATCH', 'DELETE' and the uri and requestData they
\* were given: the call goes through the gate and the queue of the client as
\* any call of makeRequest, and fetch is invoked with that method.
C28_VerbsPassThrough ==
  /\ []VerbsHoldTheirMethod
  /\ [][VerbsAreMakeRequest]_vars

\* a post that was suspended invokes fetch after a get that is still
\* suspended behind it
C28_Witness ==
  /\ RanFetch
  /\ Has(ran.trace, "dequeue")
  /\ argsRan = [verb |-> "post", method |-> "POST", data |-> "other data"]
  /\ \E c \in Calls :
       /\ pc[c] = "waiting"
       /\ argsOf[c] = [verb |-> "get", method |-> "GET", data |-> "data"]

\* C32: remove(id) with an id that is not in the queue (never issued, already
\* dequeued or already removed) leaves the queue as it was.
C32_RemoveAbsentIsNoOp ==
  (qran.op = "remove" /\ qran.arg \notin Range(qran.before.queuedCalls)) =>
    queue = qran.before

\* the bodies that are supplied and falsy
SuppliedFalsy == {Null, <<>>, NumberZero, BooleanFalse}

\* C33, as stated: a body that is supplied but falsy is handled as no body:
\* without a content type among the headers none is added, accept is '*/*'
\* and the value goes to the transport as it is.
C33_FalsyBodyAsNoBody ==
  (sent # Unsent /\ requestData.body \in SuppliedFalsy /\ Wanted("content-type") = {}) =>
    /\ Named(sent.headers, "content-type") = {}
    /\ Named(sent.headers, "accept") = {<<AnyType>>}
    /\ sent.body = requestData.body

\* C33, amended: a body that is supplied but falsy is handled as no body:
\* the request is the one made without a body, but for the value, which goes
\* to the transport as it is; without a content type among the headers none
\* is added, and accept is the accept header supplied, '*/*' when none was.
C33_FalsyBodyAsNoBodyAccept ==
  (sent # Unsent /\ requestData.body \in SuppliedFalsy) =>
    /\ sent = [fetchArguments(options, defaultRequestOptions, sent.method, uri,
                              [requestData EXCEPT !.body = UndefinedGroup])
                 EXCEPT !.body = requestData.body]
    /\ Wanted("content-type") = {} =>
         /\ Named(sent.headers, "content-type") = {}
         /\ Named(sent.headers, "accept") =
              IF Wanted("accept") # {} THEN Wanted("accept") ELSE {<<AnyType>>}

\* the number 0 is posted with no header at all
C33_Witness ==
  /\ sent # Unsent
  /\ requestData.body = NumberZero
  /\ SuppliedNames = {}
  /\ sent.headers = {<<"accept", <<AnyType>> >>}
  /\ sent.body = NumberZero

\* the block that just ran ended a call with an error of the transport or of
\* the body parser
Failed == Has(ran.trace, "fetchRejected") \/ Has(ran.trace, "parseRejected")

\* call c is suspended behind the call that just failed: one call only has
\* passed the gate of the client (a second could pass no sooner than
\* 2 * RateLimit), so it is the one that failed, and c joined the queue after
\* it passed, the gate being open before
QueuedBehindFailure(c) ==
  /\ Failed
  /\ pc[c] = "waiting"
  /\ now < MaxTime
  /\ \E cl \in LimitedClients :
       /\ clientOf[c] = cl
       /\ lastPassAt[cl] # {}
       /\ \A t \in lastPassAt[cl] : t < 2 * RateLimit

\* when a call fails its ticket is out of the queue and the time of its
\* dispatch is the time of the last request
ReleasedBeforeFailure ==
  Failed =>
    \A cl \in LimitedClients :
      /\ HoldsTheSuspended(cl)
      /\ lastPassAt[cl] # {}
      /\ timeOfLastRequest[cl] \in lastPassAt[cl]

\* a call passes no sooner than rateLimitMs after the call before it
SpacedBehind ==
  (RanPass /\ isRateLimited(ran.client)) =>
    \A t \in ran.lastPass : now >= t + rateLimitMs[ran.client]

\* C31: a call whose transport or body parser fails, allowThrow set or not,
\* has released its ticket and recorded its time before: the calls queued
\* behind it are dispatched all the same, no sooner than rateLimitMs after it.
C31_FailureDoesNotBlock ==
  /\ []ReleasedBeforeFailure
  /\ []SpacedBehind
  /\ \A c \in Calls :
       QueuedBehindFailure(c) ~> (pc[c] \notin {"waiting", "granted"})

====
